---- MODULE Spec2Model ----
(***************************************************************************)
(* GreenInvest Analytics (src/app.py): the ESG scoring-and-eligibility     *)
(* engine (calculate_esg_score, get_recommendations,                       *)
(* get_financial_opportunities) and the Streamlit script that drives it.   *)
(*                                                                         *)
(* Scores are Python floats in the source.  Here a score is an exact       *)
(* rational, held as an integer number of 1/SCALE points (SCALE = 60000),  *)
(* so that /1000, /500, /100, /4, /3, /2 and the tenths of the weights are *)
(* all exact on integer inputs.  Raw metrics and percentages are integers, *)
(* as the widgets of the manual form deliver them.                         *)
(***************************************************************************)
EXTENDS Integers, Sequences, FiniteSets, TLC

VARIABLES
    \* the database (esg_data.db)
    esg_history,            \* rows of table esg_history, in insertion order
    feedback,               \* rows of table feedback, in insertion order
    \* st.session_state of the browser session
    authentication_status,  \* "None" or "True"
    username,               \* the user logged in, 0 for none
    session_state,          \* the keys the script itself sets
    \* widget state
    input_method,           \* the sidebar radio
    uploaded_file,          \* the file uploader: no file, or one file
    scenario_widgets,       \* the nine scenario widgets, once created
    \* the page the last run rendered, with the locals it rendered from
    view,
    \* an application of the scoring pipeline made by some earlier run
    earlier_run,
    \* the core functions called on their own
    fn,        \* which of the three functions is called ("none": the app runs)
    calls,     \* the argument tuples to pass to fn, in order
    rets       \* the values fn returned so far, in call order

appVars ==
    <<esg_history, feedback, authentication_status, username, session_state,
      input_method, uploaded_file, scenario_widgets, view, earlier_run>>

coreVars == <<fn, calls, rets>>

vars == <<appVars, coreVars>>

-----------------------------------------------------------------------------
(* Bounds of the input grids *)

MaxPctIdx == 2      \* percentage grid: 0, 100/MaxPctIdx, ..., 100
MaxRawIdx == 2      \* raw-metric grid: 0 .. MaxRawIdx steps
MaxScoreIdx == 20   \* score grid: 0, 5, ..., 5*MaxScoreIdx points (and 1 unit below each)
MaxRows == 3        \* rows of the table get_esg_history is called on

(* Bounds of the app *)

MaxHistory == 3     \* rows of esg_history
MaxRepeats == 7     \* rows of esg_history when all are of one user and one data set

-----------------------------------------------------------------------------
(* Number representation *)

SCALE == 60000      \* units per score point

max(a, b) == IF a >= b THEN a ELSE b

-----------------------------------------------------------------------------
(* Static tables *)

FINANCE_OPPORTUNITIES ==
    << [name |-> "GreenStart Grant Program", type |-> "Grant", minimum_esg_score |-> 0],
       [name |-> "Eco-Efficiency Business Loan", type |-> "Loan", minimum_esg_score |-> 60],
       [name |-> "Sustainable Supply Chain Fund", type |-> "Venture Capital", minimum_esg_score |-> 75],
       [name |-> "Circular Economy Innovators Fund", type |-> "Venture Capital", minimum_esg_score |-> 80],
       [name |-> "Impact Investors Alliance - Premier Partner", type |-> "Private Equity", minimum_esg_score |-> 90] >>

\* weights = {'E': 0.4, 'S': 0.3, 'G': 0.3}, in tenths
weights == [E |-> 4, S |-> 3, G |-> 3]
WeightDenominator == 10

\* the default form values
default_env == [energy |-> 50000, water |-> 2500, waste |-> 1000, recycling |-> 40]
default_social == [turnover |-> 15, incidents |-> 3, diversity |-> 30]
default_gov == [independence |-> 50, ethics |-> 85]

-----------------------------------------------------------------------------
(* calculate_esg_score: the nine sub-indicators, in 1/SCALE points *)

\* max(0, 100 - energy/1000)
energy_score(env_data) == max(0, 100 * SCALE - env_data.energy * (SCALE \div 1000))
\* variant: water divided by 1000, as energy is
water_score_div1000(env_data) ==
    max(0, 100 * SCALE - env_data.water * (SCALE \div 1000))
\* max(0, 100 - water/500)
water_score(env_data) == max(0, 100 * SCALE - env_data.water * (SCALE \div 500))
\* max(0, 100 - waste/100)
waste_score(env_data) == max(0, 100 * SCALE - env_data.waste * (SCALE \div 100))
\* env_data['recycling']
recycling_score(env_data) == env_data.recycling * SCALE
\* variant: the floor at 0 left out
turnover_score_unfloored(social_data) == 100 * SCALE - social_data.turnover * 2 * SCALE
\* max(0, 100 - turnover*2)
turnover_score(social_data) == max(0, 100 * SCALE - social_data.turnover * 2 * SCALE)
\* variant: a penalty of 5 points per incident
incident_score_penalty5(social_data) ==
    max(0, 100 * SCALE - social_data.incidents * 5 * SCALE)
\* max(0, 100 - incidents*10)
incident_score(social_data) == max(0, 100 * SCALE - social_data.incidents * 10 * SCALE)
\* social_data['diversity']
diversity_score(social_data) == social_data.diversity * SCALE
\* gov_data['independence'], gov_data['ethics']
independence_score(gov_data) == gov_data.independence * SCALE
ethics_score(gov_data) == gov_data.ethics * SCALE

\* variant: the four indicators divided by 3
e_score_of_div3(env_data) ==
    (energy_score(env_data) + water_score(env_data) + waste_score(env_data)
        + recycling_score(env_data)) \div 3

e_score_of(env_data) ==
    (energy_score(env_data) + water_score(env_data) + waste_score(env_data)
        + recycling_score(env_data)) \div 4

s_score_of(social_data) ==
    (turnover_score(social_data) + incident_score(social_data)
        + diversity_score(social_data)) \div 3

g_score_of(gov_data) ==
    (independence_score(gov_data) + ethics_score(gov_data)) \div 2

\* variant: the plain mean of the three category scores
final_score_of_unweighted(e_score, s_score, g_score) ==
    (e_score + s_score + g_score) \div 3

\* (e_score * weights['E']) + (s_score * weights['S']) + (g_score * weights['G'])
final_score_of(e_score, s_score, g_score) ==
    (e_score * weights.E + s_score * weights.S + g_score * weights.G) \div WeightDenominator

\* variant: a score that also depends on what the feedback table holds
calculate_esg_score_stateful(env_data, social_data, gov_data) ==
    LET e_score == e_score_of(env_data)
        s_score == s_score_of(social_data)
        g_score == g_score_of(gov_data)
    IN  [final_score |-> final_score_of(e_score, s_score, g_score) + Len(feedback),
         e_score |-> e_score, s_score |-> s_score, g_score |-> g_score]

calculate_esg_score(env_data, social_data, gov_data) ==
    LET e_score == e_score_of(env_data)
        s_score == s_score_of(social_data)
        g_score == g_score_of(gov_data)
    IN  [final_score |-> final_score_of(e_score, s_score, g_score),
         e_score |-> e_score, s_score |-> s_score, g_score |-> g_score]

-----------------------------------------------------------------------------
(* get_recommendations *)

E_HIGH == "**High Impact:** Conduct a professional energy audit"
E_MEDIUM == "**Medium Impact:** Implement a company-wide switch to LED lighting"
E_CRITICAL == "Crital:** Develop a comprehensive waste reduction and recycling strategy"
S_HIGH == "**High Impact:** Introduce an anonymous employee feedback system"
S_MEDIUM == "**Medium Impact:** Implement diversity and inclusion training"
S_CRITICAL == "**Critical:** Review safety protocols"
G_HIGH == "**High Impact:** Appoint an additional independent director"
G_MEDIUM == "**Medium Impact:** Regularly update and communicate your company's ethics policy"
G_CRITICAL == "**Critical:** Establish a clear whistleblower policy"
E_PRAISE == "Strong performance!"
S_PRAISE == "Excellent metrics!"
G_PRAISE == "Solid governance."

\* the rules of one category in source order: <<threshold in points, message>>
E_RULES == << <<70, E_HIGH>>, <<80, E_MEDIUM>>, <<60, E_CRITICAL>> >>
S_RULES == << <<70, S_HIGH>>, <<80, S_MEDIUM>>, <<60, S_CRITICAL>> >>
G_RULES == << <<75, G_HIGH>>, <<85, G_MEDIUM>>, <<65, G_CRITICAL>> >>

\* if score < threshold: recs[...].append(message)
rule_fires(score, rule) == score < rule[1] * SCALE

\* variant: the rules applied in ascending order of threshold
apply_rules_ascending(score, rules) ==
    (IF rule_fires(score, rules[3]) THEN << rules[3][2] >> ELSE << >>)
    \o (IF rule_fires(score, rules[1]) THEN << rules[1][2] >> ELSE << >>)
    \o (IF rule_fires(score, rules[2]) THEN << rules[2][2] >> ELSE << >>)

\* the three `if score < t: append` statements of one category, in order
apply_rules(score, rules) ==
    (IF rule_fires(score, rules[1]) THEN << rules[1][2] >> ELSE << >>)
    \o (IF rule_fires(score, rules[2]) THEN << rules[2][2] >> ELSE << >>)
    \o (IF rule_fires(score, rules[3]) THEN << rules[3][2] >> ELSE << >>)

\* variant: the praise appended unconditionally
with_fallback_always(msgs, praise) == Append(msgs, praise)

\* if not recs[...]: recs[...].append(praise)
with_fallback(msgs, praise) == IF msgs = << >> THEN << praise >> ELSE msgs

get_recommendations(e_score, s_score, g_score) ==
    [E |-> with_fallback(apply_rules(e_score, E_RULES), E_PRAISE),
     S |-> with_fallback(apply_rules(s_score, S_RULES), S_PRAISE),
     G |-> with_fallback(apply_rules(g_score, G_RULES), G_PRAISE)]

-----------------------------------------------------------------------------
(* get_financial_opportunities *)

\* variant: only scores above 0 unlock anything
unlocks_positive(esg_score, opp) ==
    esg_score > 0 /\ esg_score >= opp.minimum_esg_score * SCALE

\* variant: a strict comparison
unlocks_strict(esg_score, opp) == esg_score > opp.minimum_esg_score * SCALE
\* variant: only the offers of the tier the score falls in
unlocks_tier(esg_score, opp) ==
    /\ esg_score >= opp.minimum_esg_score * SCALE
    /\ esg_score < (opp.minimum_esg_score + 30) * SCALE

\* esg_score >= opp['minimum_esg_score']
unlocks(esg_score, opp) == esg_score >= opp.minimum_esg_score * SCALE

\* [opp for opp in FINANCE_OPPORTUNITIES if ...]
get_financial_opportunities(esg_score) ==
    SelectSeq(FINANCE_OPPORTUNITIES, LAMBDA opp : unlocks(esg_score, opp))

-----------------------------------------------------------------------------
(* The Streamlit script.  One browser session; every user interaction      *)
(* makes one run of the script from top to bottom.  A value that may be    *)
(* absent (a key not in st.session_state, a widget left empty, a local     *)
(* never assigned) is a sequence of length 0 or 1.                         *)

\* the registered users (rows of table users), by id
Users == {1, 2}

OverviewTab == 0
RecommendationsTab == 1
FinanceTab == 2
HistoryTab == 3
ScenarioTab == 4
FeedbackTab == 5
\* tab_labels, by index
TabIndexes == OverviewTab..FeedbackTab

MetricSet(env_data, social_data, gov_data) ==
    [env |-> env_data, social |-> social_data, gov |-> gov_data]

default_input == MetricSet(default_env, default_social, default_gov)

\* a company with nothing to improve
best_input ==
    MetricSet([energy |-> 0, water |-> 0, waste |-> 0, recycling |-> 100],
              [turnover |-> 0, incidents |-> 0, diversity |-> 100],
              [independence |-> 100, ethics |-> 100])

\* values the sidebar form and the scenario widgets can be set to
FormInputs == {default_input, best_input}

\* the template file of get_template_csv: metric -> value
template_csv ==
    [energy_consumption_kwh |-> 50000, water_usage_m3 |-> 2500,
     waste_generation_kg |-> 1000, recycling_rate_pct |-> 40,
     employee_turnover_pct |-> 15, safety_incidents_count |-> 3,
     management_diversity_pct |-> 30, board_independence_pct |-> 50,
     ethics_training_pct |-> 85]

\* a file with a recycling rate of 150 %
over_range_csv == [template_csv EXCEPT !.recycling_rate_pct = 150]

\* a file without the energy and ethics rows
missing_rows_csv ==
    [water_usage_m3 |-> 2500, waste_generation_kg |-> 1000, recycling_rate_pct |-> 40,
     employee_turnover_pct |-> 15, safety_incidents_count |-> 3,
     management_diversity_pct |-> 30, board_independence_pct |-> 50]

CsvFiles == {template_csv, over_range_csv, missing_rows_csv}

\* data_dict.get(key, 0)
dict_get(data_dict, key, default) ==
    IF key \in DOMAIN data_dict THEN data_dict[key] ELSE default

\* env_data, social_data, gov_data built from the uploaded file
parse_csv(data_dict) ==
    MetricSet(
        [energy |-> dict_get(data_dict, "energy_consumption_kwh", 0),
         water |-> dict_get(data_dict, "water_usage_m3", 0),
         waste |-> dict_get(data_dict, "waste_generation_kg", 0),
         recycling |-> dict_get(data_dict, "recycling_rate_pct", 0)],
        [turnover |-> dict_get(data_dict, "employee_turnover_pct", 0),
         incidents |-> dict_get(data_dict, "safety_incidents_count", 0),
         diversity |-> dict_get(data_dict, "management_diversity_pct", 0)],
        [independence |-> dict_get(data_dict, "board_independence_pct", 0),
         ethics |-> dict_get(data_dict, "ethics_training_pct", 0)])

\* st.slider(min_value=0, max_value=100, value=v) accepts v
slider_accepts(v) == 0 <= v /\ v <= 100
\* st.number_input(min_value=0, value=v) accepts v
number_input_accepts(v) == 0 <= v

\* the nine widgets of the sidebar form, and of the scenario planner, accept
\* these values as their `value`
widgets_accept(data) ==
    /\ number_input_accepts(data.env.energy)
    /\ number_input_accepts(data.env.water)
    /\ number_input_accepts(data.env.waste)
    /\ slider_accepts(data.env.recycling)
    /\ slider_accepts(data.social.turnover)
    /\ number_input_accepts(data.social.incidents)
    /\ slider_accepts(data.social.diversity)
    /\ slider_accepts(data.gov.independence)
    /\ slider_accepts(data.gov.ethics)

(* Database *)

\* variant: the INSERT left out
save_esg_history_nothing(history, user_id, timestamp, scores, data) == history

\* save_esg_history: one INSERT; the timestamp is the time of the call
save_esg_history(history, user_id, timestamp, scores, data) ==
    Append(history,
           [user_id |-> user_id, timestamp |-> timestamp,
            overall_score |-> scores.final_score, e_score |-> scores.e_score,
            s_score |-> scores.s_score, g_score |-> scores.g_score,
            env_data |-> data.env, social_data |-> data.social, gov_data |-> data.gov])

(* Timestamps.  A time is a number of microseconds within one minute; the  *)
(* date, hour and minute fields of the ISO text are the same for all rows  *)
(* and are left out.  A text is the sequence of its character codes.       *)

MICROSECONDS == 1000000
digit(d) == 48 + d      \* ord('0') + d
Point == 46             \* ord('.')

\* the digits of n, zero-padded to the given width
RECURSIVE zero_padded(_, _)
zero_padded(n, width) ==
    IF width = 0 THEN << >>
    ELSE Append(zero_padded(n \div 10, width - 1), digit(n % 10))

\* datetime.isoformat(): SS, followed by .ffffff unless the microsecond is 0
isoformat(t) ==
    zero_padded(t \div MICROSECONDS, 2)
        \o (IF t % MICROSECONDS = 0 THEN << >>
            ELSE << Point >> \o zero_padded(t % MICROSECONDS, 6))

\* the number a text of digits denotes
RECURSIVE int_of(_)
int_of(text) ==
    IF text = << >> THEN 0
    ELSE 10 * int_of(SubSeq(text, 1, Len(text) - 1)) + (text[Len(text)] - digit(0))

\* pd.to_datetime(text)
to_datetime(text) ==
    int_of(SubSeq(text, 1, 2)) * MICROSECONDS
        + (IF Len(text) > 2 THEN int_of(SubSeq(text, 4, Len(text))) ELSE 0)

\* a < b for TEXT values: the order of ORDER BY timestamp ASC
RECURSIVE text_less(_, _)
text_less(a, b) ==
    IF b = << >> THEN FALSE
    ELSE IF a = << >> THEN TRUE
    ELSE IF a[1] # b[1] THEN a[1] < b[1]
    ELSE text_less(Tail(a), Tail(b))

\* the dict get_esg_history builds from a row; json.loads(json.dumps(d))
\* returns d for a dict of string keys and integer values
parsed_row(row) ==
    [timestamp |-> to_datetime(row.timestamp),
     overall_score |-> row.overall_score, e_score |-> row.e_score,
     s_score |-> row.s_score, g_score |-> row.g_score,
     env_data |-> row.env_data, social_data |-> row.social_data,
     gov_data |-> row.gov_data]

\* variant: ORDER BY left out
get_esg_history_unsorted(history, user_id) ==
    LET history_data == SelectSeq(history, LAMBDA row : row.user_id = user_id)
    IN  [i \in 1..Len(history_data) |-> parsed_row(history_data[i])]

\* variant: every row of the table, whoever it belongs to
get_esg_history_all_users(history, user_id) ==
    LET history_data ==
            SortSeq(history, LAMBDA a, b : text_less(a.timestamp, b.timestamp))
    IN  [i \in 1..Len(history_data) |-> parsed_row(history_data[i])]

\* get_esg_history: WHERE user_id = ? ORDER BY timestamp ASC
get_esg_history(history, user_id) ==
    LET history_data ==
            SortSeq(SelectSeq(history, LAMBDA row : row.user_id = user_id),
                    LAMBDA a, b : text_less(a.timestamp, b.timestamp))
    IN  [i \in 1..Len(history_data) |-> parsed_row(history_data[i])]

\* save_user_feedback: one INSERT
save_user_feedback(rows, user_id, rating) ==
    Append(rows, [user_id |-> user_id, rating |-> rating])

\* an operation on table esg_history raises sqlite3.Error during this run
\* (op is "append" or "list"): the statement that called it is abandoned
raises(s, op) == op \in s.failing
sqlite3_Error(s) ==
    [s EXCEPT !.view.error = "sqlite3.Error", !.view.storage_error = TRUE]

\* datetime.datetime.now(): later than the time of every earlier insert
now(history) == Len(history) + 1

(* What a run puts on the page *)

BlankView ==
    [page |-> "login", form |-> "none", dashboard |-> FALSE, tab |-> 0, error |-> "none",
     input |-> << >>, scores |-> << >>, recommendations |-> << >>,
     unlocked_opportunities |-> << >>, history |-> << >>,
     scenario_input |-> << >>, scenario_scores |-> << >>,
     scenario_unlocked_opportunities |-> << >>,
     selected_rating |-> << >>, feedback_message |-> "none", report_data |-> << >>,
     storage_error |-> FALSE]

NoEvent == [kind |-> "none"]

(* display_dashboard *)

\* F applied to the value of x: the statements F after the statements x
Then(x, F(_)) == CHOOSE r \in { F(y) : y \in {x} } : TRUE

\* the Scenario Planner tab
scenario_tab(s, ev) ==
    LET current_data == s.session_state.current_esg_input_data[1]
        scenario ==
            IF ev.kind = "scenario" THEN ev.data
            ELSE IF s.scenario_widgets # << >> THEN s.scenario_widgets[1]
            ELSE current_data
    IN  IF ~widgets_accept(current_data)
        THEN [s EXCEPT !.view.error = "StreamlitAPIException"]
        ELSE Then(calculate_esg_score(scenario.env, scenario.social, scenario.gov),
                  LAMBDA scenario_scores :
                      [s EXCEPT !.scenario_widgets = << scenario >>,
                                !.view.scenario_input = << scenario >>,
                                !.view.scenario_scores = << scenario_scores >>,
                                !.view.scenario_unlocked_opportunities =
                                    << get_financial_opportunities(
                                           scenario_scores.final_score) >>])

\* the star buttons of the Feedback tab
star_buttons(s, ev) ==
    IF ev.kind = "star"
    THEN [s EXCEPT !.view.selected_rating = << s.session_state.feedback_rating >>,
                   !.session_state.feedback_rating = ev.star,
                   !.session_state.force_feedback_tab_active = TRUE]
    ELSE [s EXCEPT !.view.selected_rating = << s.session_state.feedback_rating >>]

\* the comment form of the Feedback tab
feedback_form(s, ev) ==
    IF ev.kind = "submit"
    THEN IF s.session_state.feedback_rating > 0
         THEN [s EXCEPT !.feedback =
                            save_user_feedback(s.feedback, s.session_state.user_id,
                                               s.session_state.feedback_rating),
                        !.session_state.feedback_rating = 0,
                        !.session_state.force_feedback_tab_active = TRUE,
                        !.view.error = "RerunException"]
         ELSE [s EXCEPT !.view.feedback_message = "no_rating"]
    ELSE s

\* the Feedback tab
feedback_tab(s, ev) ==
    Then(star_buttons(s, ev), LAMBDA s1 : feedback_form(s1, ev))

\* f"{x:.1f}": x rounded to a number of tenths, a half going to the even side
format_1f(x) ==
    LET TENTH == SCALE \div 10
        q == x \div TENTH
        r == x % TENTH
    IN  IF 2 * r < TENTH THEN q
        ELSE IF 2 * r > TENTH THEN q + 1
        ELSE IF q % 2 = 0 THEN q ELSE q + 1

\* {"name": ..., "type": ..., "min_esg": ...} for an offer
report_entry(opp) ==
    [name |-> opp.name, type |-> opp.type, min_esg |-> opp.minimum_esg_score]

\* the report record of the Export Report section
report_data_of(s, scores, data) ==
    LET unlocked_opportunities == s.view.unlocked_opportunities[1]
    IN  [Overall_ESG_Score |-> format_1f(scores.final_score),
         Environmental_Score |-> format_1f(scores.e_score),
         Social_Score |-> format_1f(scores.s_score),
         Governance_Score |-> format_1f(scores.g_score),
         Input_Data |->
             [Environmental |-> data.env, Social |-> data.social, Governance |-> data.gov],
         Recommendations_Environmental |->
             get_recommendations(scores.e_score, scores.s_score, scores.g_score).E,
         Recommendations_Social |->
             get_recommendations(scores.e_score, scores.s_score, scores.g_score).S,
         Recommendations_Governance |->
             get_recommendations(scores.e_score, scores.s_score, scores.g_score).G,
         Unlocked_Financial_Opportunities |->
             [i \in 1..Len(unlocked_opportunities) |->
                 report_entry(unlocked_opportunities[i])]]

\* tab management: the tab this run shows
selected_tab_of(s, ev) ==
    IF ev.kind = "tab" THEN ev.tab
    ELSE IF s.session_state.force_feedback_tab_active THEN FeedbackTab
    ELSE s.session_state.last_display_dashboard_tab_index

\* the content of the selected tab
tab_content(s, scores, ev) ==
    CASE s.view.tab = RecommendationsTab ->
             [s EXCEPT !.view.recommendations =
                 << get_recommendations(scores.e_score, scores.s_score, scores.g_score) >>]
      [] s.view.tab = FinanceTab ->
             [s EXCEPT !.view.unlocked_opportunities =
                 << get_financial_opportunities(scores.final_score) >>]
      [] s.view.tab = HistoryTab ->
             IF raises(s, "list") THEN sqlite3_Error(s)
             ELSE [s EXCEPT !.view.history =
                      << get_esg_history(s.esg_history, s.session_state.user_id) >>]
      [] s.view.tab = ScenarioTab -> scenario_tab(s, ev)
      [] s.view.tab = FeedbackTab -> feedback_tab(s, ev)
      [] OTHER -> s

\* export report: unlocked_opportunities is a local of the Finance tab only
export_report(s, scores, data) ==
    \* an exception in the tab content has ended the function
    IF s.view.error \in {"StreamlitAPIException", "RerunException", "sqlite3.Error"} THEN s
    ELSE IF s.view.unlocked_opportunities = << >>
    THEN [s EXCEPT !.view.error = "NameError"]
    ELSE [s EXCEPT !.view.report_data = << report_data_of(s, scores, data) >>]

display_dashboard(s, scores, data, ev) ==
    Then([s EXCEPT !.session_state.force_feedback_tab_active = FALSE,
                   !.session_state.last_display_dashboard_tab_index = selected_tab_of(s, ev),
                   !.view.dashboard = TRUE,
                   !.view.tab = selected_tab_of(s, ev),
                   !.view.input = << data >>,
                   !.view.scores = << scores >>],
         LAMBDA s1 :
             Then(tab_content(s1, scores, ev),
                  LAMBDA s2 : export_report(s2, scores, data)))

(* Main app logic *)

\* lines 656-669 and 709-722: score, remember the inputs, save, display
score_and_display(s, data, ev) ==
    Then(calculate_esg_score(data.env, data.social, data.gov),
         LAMBDA scores :
             Then([s EXCEPT !.session_state.current_esg_input_data = << data >>,
                            !.session_state.last_input = << data >>],
                  LAMBDA s1 :
                      IF raises(s1, "append") THEN sqlite3_Error(s1)
                      ELSE Then([s1 EXCEPT !.esg_history =
                                    save_esg_history(s1.esg_history, s1.session_state.user_id,
                                                     isoformat(now(s1.esg_history)),
                                                     scores, data)],
                                LAMBDA s2 : display_dashboard(s2, scores, data, ev))))

\* the values the sidebar form is pre-filled with
last_input_of(s) ==
    LET latest_records == get_esg_history(s.esg_history, s.session_state.user_id)
    IN  IF s.session_state.last_input # << >> THEN s.session_state.last_input[1]
        ELSE IF latest_records # << >>
        THEN LET latest_data_entry == latest_records[Len(latest_records)]
             IN  MetricSet(latest_data_entry.env_data, latest_data_entry.social_data,
                           latest_data_entry.gov_data)
        ELSE default_input

\* the Manual Input branch
manual_input(s, ev) ==
    IF s.session_state.last_input = << >> /\ raises(s, "list")
    THEN sqlite3_Error([s EXCEPT !.uploaded_file = << >>])
    ELSE
    Then([s EXCEPT !.session_state.last_input = << last_input_of(s) >>,
                   !.uploaded_file = << >>],
         LAMBDA s1 :
             IF ~widgets_accept(s1.session_state.last_input[1])
             THEN [s1 EXCEPT !.view.error = "StreamlitAPIException"]
             ELSE IF ev.kind = "calculate"
             THEN Then([s1 EXCEPT !.view.form = "manual"],
                       LAMBDA s2 : score_and_display(s2, ev.data, ev))
             ELSE [s1 EXCEPT !.view.form = "manual"])

\* the file in the uploader during this run
file_of(s, ev) ==
    CASE ev.kind = "upload" -> << ev.file >>
      [] ev.kind = "remove" -> << >>
      [] OTHER -> s.uploaded_file

\* except Exception as e: st.error(...)
except_exception(s) ==
    IF s.view.error \in {"NameError", "StreamlitAPIException", "sqlite3.Error"}
    THEN [s EXCEPT !.view.error = "csv_processing_error"]
    ELSE s

\* the CSV Upload branch
csv_upload(s, ev) ==
    Then([s EXCEPT !.uploaded_file = file_of(s, ev), !.view.form = "csv"],
         LAMBDA s1 :
             IF s1.uploaded_file = << >> THEN s1
             ELSE Then(score_and_display(s1, parse_csv(s1.uploaded_file[1]), ev),
                       LAMBDA s2 : except_exception(s2)))

\* the branch for an authenticated user, up to the choice of input method
sidebar(s, ev) ==
    [s EXCEPT !.session_state.user_id = s.username,
              !.view = [BlankView EXCEPT !.page = "app"],
              \* authenticator.logout
              !.authentication_status = IF ev.kind = "logout" THEN "None" ELSE @,
              !.username = IF ev.kind = "logout" THEN 0 ELSE @,
              !.input_method = IF ev.kind = "method" THEN ev.method ELSE @]

\* the branch for an authenticated user
authenticated(s, ev) ==
    Then(sidebar(s, ev),
         LAMBDA s1 :
             IF s1.input_method = "Manual Input" THEN manual_input(s1, ev)
             ELSE csv_upload(s1, ev))

\* authenticator.login
login(s, ev) ==
    CASE ev.kind = "login" ->
             [s EXCEPT !.authentication_status = "True", !.username = ev.user]
      [] OTHER -> s

\* widgets a run does not create lose their state
forget_widgets(s) ==
    IF s.view.scenario_input = << >> THEN [s EXCEPT !.scenario_widgets = << >>] ELSE s

\* one run of the script
script_run(s, ev) ==
    Then(login(s, ev),
         LAMBDA s1 :
             Then(IF s1.authentication_status = "True" THEN authenticated(s1, ev)
                  ELSE [s1 EXCEPT !.view = BlankView,
                                  !.input_method = "Manual Input",
                                  !.uploaded_file = << >>],
                  LAMBDA s2 : forget_widgets(s2)))

\* a run and, after st.experimental_rerun(), the run that follows it
run(s, ev) ==
    Then(script_run(s, ev),
         LAMBDA r : IF r.view.error = "RerunException" THEN script_run(r, NoEvent) ELSE r)

(* The state between two runs, and the interactions *)

State ==
    [esg_history |-> esg_history, feedback |-> feedback,
     authentication_status |-> authentication_status, username |-> username,
     session_state |-> session_state, input_method |-> input_method,
     uploaded_file |-> uploaded_file, scenario_widgets |-> scenario_widgets,
     view |-> view, failing |-> { }]

\* one application of the scoring pipeline: the data scored, the scores, and
\* the recommendations and offers derived from them where the run derived them
Application(data, scores, recommendations, opportunities) ==
    [data |-> data, scores |-> scores, recommendations |-> recommendations,
     opportunities |-> opportunities]

\* the applications of the pipeline made by the run that produced view v
Applications(v) ==
    (IF v.scores # << >>
     THEN { Application(v.input[1], v.scores[1],
                IF v.recommendations # << >> THEN v.recommendations
                ELSE IF v.report_data # << >>
                THEN << [E |-> v.report_data[1].Recommendations_Environmental,
                         S |-> v.report_data[1].Recommendations_Social,
                         G |-> v.report_data[1].Recommendations_Governance] >>
                ELSE << >>,
                v.unlocked_opportunities) }
     ELSE { })
    \cup
    (IF v.scenario_scores # << >>
     THEN { Application(v.scenario_input[1], v.scenario_scores[1], << >>,
                        v.scenario_unlocked_opportunities) }
     ELSE { })

\* all rows are of one user and one data set
Repeated(history) ==
    \A i, j \in 1..Len(history) :
        /\ history[i].user_id = history[j].user_id
        /\ history[i].env_data = history[j].env_data
        /\ history[i].social_data = history[j].social_data
        /\ history[i].gov_data = history[j].gov_data

\* the bound on the history table (a feedback row is never inserted without
\* a history row, so this bounds the feedback table too)
WithinBounds(history) ==
    \/ Len(history) <= MaxHistory
    \/ Len(history) <= MaxRepeats /\ Repeated(history)

\* the interaction ev makes a run; the history stays within its bound; any
\* application of the pipeline on the page being replaced may be remembered
InteractWhile(ev, failing) ==
    \E r \in { run([State EXCEPT !.failing = failing], ev) } :
        /\ WithinBounds(r.esg_history)
        /\ esg_history' = r.esg_history
        /\ feedback' = r.feedback
        /\ authentication_status' = r.authentication_status
        /\ username' = r.username
        /\ session_state' = r.session_state
        /\ input_method' = r.input_method
        /\ uploaded_file' = r.uploaded_file
        /\ scenario_widgets' = r.scenario_widgets
        /\ view' = r.view
        /\ earlier_run' \in {earlier_run} \cup { << a >> : a \in Applications(view) }
        /\ UNCHANGED coreVars

\* the interaction ev makes a run during which the database works
Interact(ev) == InteractWhile(ev, { })

AppInit ==
    /\ esg_history = << >>
    /\ feedback = << >>
    /\ authentication_status = "None"
    /\ username = 0
    /\ session_state =
           [user_id |-> 0, last_input |-> << >>, current_esg_input_data |-> << >>,
            feedback_rating |-> 0, force_feedback_tab_active |-> FALSE,
            last_display_dashboard_tab_index |-> 0]
    /\ input_method = "Manual Input"
    /\ uploaded_file = << >>
    /\ scenario_widgets = << >>
    /\ view = BlankView
    /\ earlier_run = << >>

Init ==
    /\ AppInit
    /\ fn = "none" /\ calls = << >> /\ rets = << >>

Login(user) ==
    /\ view.page = "login"
    /\ Interact([kind |-> "login", user |-> user])

Logout ==
    /\ view.page = "app"
    /\ Interact([kind |-> "logout"])

SelectInputMethod(method) ==
    /\ view.page = "app"
    /\ method # input_method
    /\ Interact([kind |-> "method", method |-> method])

Calculate(data) ==
    /\ view.form = "manual"
    /\ Interact([kind |-> "calculate", data |-> data])

UploadFile(file) ==
    /\ view.form = "csv"
    /\ uploaded_file # << file >>
    /\ Interact([kind |-> "upload", file |-> file])

RemoveFile ==
    /\ view.form = "csv"
    /\ uploaded_file # << >>
    /\ Interact([kind |-> "remove"])

SelectTab(tab) ==
    /\ view.dashboard
    /\ tab # view.tab
    /\ Interact([kind |-> "tab", tab |-> tab])

ClickStar(star) ==
    /\ view.selected_rating # << >>
    /\ Interact([kind |-> "star", star |-> star])

SubmitFeedback ==
    /\ view.selected_rating # << >>
    /\ Interact([kind |-> "submit"])

ChangeScenario(data) ==
    /\ view.scenario_input # << >>
    /\ data # view.scenario_input[1]
    /\ Interact([kind |-> "scenario", data |-> data])

\* any other widget: an expander, a download button
OtherInteraction ==
    /\ view.page = "app"
    /\ Interact(NoEvent)

Next ==
    \/ \E user \in Users : Login(user)
    \/ Logout
    \/ \E method \in {"Manual Input", "Upload CSV File"} : SelectInputMethod(method)
    \/ \E data \in FormInputs : Calculate(data)
    \/ \E file \in CsvFiles : UploadFile(file)
    \/ RemoveFile
    \/ \E tab \in TabIndexes : SelectTab(tab)
    \/ \E star \in 1..5 : ClickStar(star)
    \/ SubmitFeedback
    \/ \E data \in FormInputs : ChangeScenario(data)
    \/ OtherInteraction

Spec == Init /\ [][Next]_vars

(* The script with a history store that can fail *)

\* the interactions that reach the history store, made while one of its
\* operations fails (the table is locked, the disk is full)
StorageOps == {"append", "list"}

LoginStorageError(user) ==
    /\ view.page = "login"
    /\ InteractWhile([kind |-> "login", user |-> user], {"list"})

CalculateStorageError(data, op) ==
    /\ view.form = "manual"
    /\ InteractWhile([kind |-> "calculate", data |-> data], {op})

UploadFileStorageError(file, op) ==
    /\ view.form = "csv"
    /\ uploaded_file # << file >>
    /\ InteractWhile([kind |-> "upload", file |-> file], {op})

\* the interactions that lead to the history store, with or without a failure
NextStorage ==
    \/ \E user \in Users : Login(user)
    \/ Logout
    \/ \E method \in {"Manual Input", "Upload CSV File"} : SelectInputMethod(method)
    \/ \E data \in FormInputs : Calculate(data)
    \/ \E file \in CsvFiles : UploadFile(file)
    \/ \E tab \in TabIndexes : SelectTab(tab)
    \/ \E user \in Users : LoginStorageError(user)
    \/ \E data \in FormInputs, op \in StorageOps : CalculateStorageError(data, op)
    \/ \E file \in CsvFiles, op \in StorageOps : UploadFileStorageError(file, op)

SpecStorage == Init /\ [][NextStorage]_vars

-----------------------------------------------------------------------------------------------------------------------------------------------------
(* The core functions called on their own: the argument tuples are drawn   *)
(* in the initial state, each action is one call of the function on the    *)
(* next argument tuple; rets[i] is what the call on calls[i] returned.     *)

PctVals == { (100 * k) \div MaxPctIdx : k \in 0..MaxPctIdx }
EnergyVals == { 75000 * k : k \in 0..MaxRawIdx }
WaterVals == { 37500 * k : k \in 0..MaxRawIdx }
WasteVals == { 7500 * k : k \in 0..MaxRawIdx }
IncidentVals == { 6 * k : k \in 0..MaxRawIdx }

\* values only a CSV file can deliver: nothing on that path checks a range
CsvOnlyEnv ==
    { [default_env EXCEPT !.recycling = 150], [default_env EXCEPT !.recycling = 0 - 20],
      [default_env EXCEPT !.energy = 0 - 100000] }
CsvOnlySocial ==
    { [default_social EXCEPT !.diversity = 150], [default_social EXCEPT !.turnover = 0 - 50],
      [default_social EXCEPT !.incidents = 0 - 5] }
CsvOnlyGov ==
    { [default_gov EXCEPT !.ethics = 150], [default_gov EXCEPT !.independence = 0 - 50] }

EnvInputs ==
    [energy : EnergyVals, water : WaterVals, waste : WasteVals, recycling : PctVals]
        \cup {default_env} \cup CsvOnlyEnv
SocialInputs ==
    [turnover : PctVals, incidents : IncidentVals, diversity : PctVals]
        \cup {default_social} \cup CsvOnlySocial
GovInputs ==
    [independence : PctVals, ethics : PctVals] \cup {default_gov} \cup CsvOnlyGov

\* times of insertion: whole seconds and fractions, below and above 10 s
TimeVals == {999999, MICROSECONDS, 10 * MICROSECONDS}

\* the inserts that filled the table: who saved, when, and which inputs
Inserts == UNION { [1..n -> Users \X TimeVals \X FormInputs] : n \in 0..MaxRows }

\* the table after the inserts: one save_esg_history call each
RECURSIVE table_after(_)
table_after(inserts) ==
    IF inserts = << >> THEN << >>
    ELSE LET last == inserts[Len(inserts)]
         IN  save_esg_history(table_after(SubSeq(inserts, 1, Len(inserts) - 1)),
                              last[1], isoformat(last[2]),
                              calculate_esg_score(last[3].env, last[3].social, last[3].gov),
                              last[3])

\* scores on and one unit below every multiple of 5 points
ScoreVals == { 5 * SCALE * k - d : k \in 0..MaxScoreIdx, d \in {0, 1} }

CoreInit ==
    /\ AppInit
    /\ rets = << >>
    /\ \/ /\ fn = "calculate_esg_score"
          /\ calls \in { << <<env, social, gov>> >> :
                            env \in EnvInputs, social \in SocialInputs, gov \in GovInputs }
       \/ /\ fn = "get_recommendations"
          /\ calls \in { << <<e, s, g>> >> : e \in ScoreVals, s \in ScoreVals, g \in ScoreVals }
       \/ /\ fn = "get_financial_opportunities"
          /\ calls \in { << <<s1>>, <<s2>> >> : s1 \in ScoreVals, s2 \in ScoreVals }
       \/ /\ fn = "get_esg_history"
          /\ calls \in { << <<inserts, user_id>> >> : inserts \in Inserts, user_id \in Users }

\* the argument tuple of the next call
NextArgs == calls[Len(rets) + 1]

CallCalculate ==
    /\ fn = "calculate_esg_score"
    /\ Len(rets) < Len(calls)
    /\ rets' = Append(rets, calculate_esg_score(NextArgs[1], NextArgs[2], NextArgs[3]))
    /\ UNCHANGED <<fn, calls>>
    /\ UNCHANGED appVars

CallRecommend ==
    /\ fn = "get_recommendations"
    /\ Len(rets) < Len(calls)
    /\ rets' = Append(rets, get_recommendations(NextArgs[1], NextArgs[2], NextArgs[3]))
    /\ UNCHANGED <<fn, calls>>
    /\ UNCHANGED appVars

CallOpportunities ==
    /\ fn = "get_financial_opportunities"
    /\ Len(rets) < Len(calls)
    /\ rets' = Append(rets, get_financial_opportunities(NextArgs[1]))
    /\ UNCHANGED <<fn, calls>>
    /\ UNCHANGED appVars

\* get_esg_history(user_id) on the table the inserts left
CallHistory ==
    /\ fn = "get_esg_history"
    /\ Len(rets) < Len(calls)
    /\ rets' = Append(rets, get_esg_history(table_after(NextArgs[1]), NextArgs[2]))
    /\ UNCHANGED <<fn, calls>>
    /\ UNCHANGED appVars

CoreNext == CallCalculate \/ CallRecommend \/ CallOpportunities \/ CallHistory

SpecCore == CoreInit /\ [][CoreNext]_vars

-----------------------------------------------------------------------------
(* Properties of calculate_esg_score *)

\* a completed call of calculate_esg_score: its arguments and its result
Calculated == fn = "calculate_esg_score" /\ Len(rets) = 1
ArgEnv == calls[1][1]
ArgSocial == calls[1][2]
ArgGov == calls[1][3]

Floor0(x) == IF x < 0 THEN 0 ELSE x

NonNegativeRaw ==
    /\ ArgEnv.energy >= 0 /\ ArgEnv.water >= 0 /\ ArgEnv.waste >= 0
    /\ ArgSocial.incidents >= 0 /\ ArgSocial.turnover >= 0

PercentagesInRange ==
    /\ ArgEnv.recycling \in 0..100
    /\ ArgSocial.turnover \in 0..100
    /\ ArgSocial.diversity \in 0..100
    /\ ArgGov.independence \in 0..100
    /\ ArgGov.ethics \in 0..100

\* C1: the overall score returned by calculate_esg_score is
\* 0.4*e + 0.3*s + 0.3*g of the category scores returned by the same call,
\* and the three weights sum to 1 (here: tenths summing to 10).
C1_OverallIsWeightedSum ==
    Calculated =>
        /\ 10 * rets[1].final_score
              = 4 * rets[1].e_score + 3 * rets[1].s_score + 3 * rets[1].g_score
        /\ weights.E + weights.S + weights.G = WeightDenominator

\* a call whose three category scores differ pairwise and are all positive
C1_Witness ==
    /\ Calculated
    /\ rets[1].e_score > rets[1].s_score
    /\ rets[1].s_score > rets[1].g_score
    /\ rets[1].g_score > 0
    /\ rets[1].final_score > rets[1].g_score

\* C2: each category score is the arithmetic mean of that category's
\* normalized indicators (4 environmental, 3 social, 2 governance).
C2_CategoryMeans ==
    Calculated =>
        /\ 4 * rets[1].e_score
              = Floor0(100 * SCALE - 60 * ArgEnv.energy)
                + Floor0(100 * SCALE - 120 * ArgEnv.water)
                + Floor0(100 * SCALE - 600 * ArgEnv.waste)
                + SCALE * ArgEnv.recycling
        /\ 3 * rets[1].s_score
              = Floor0(SCALE * (100 - 2 * ArgSocial.turnover))
                + Floor0(SCALE * (100 - 10 * ArgSocial.incidents))
                + SCALE * ArgSocial.diversity
        /\ 2 * rets[1].g_score = SCALE * (ArgGov.independence + ArgGov.ethics)

\* the default inputs: every indicator is strictly between 0 and 100
C2_Witness ==
    /\ Calculated
    /\ ArgEnv = default_env /\ ArgSocial = default_social /\ ArgGov = default_gov
    /\ 4 * rets[1].e_score = SCALE * (50 + 95 + 90 + 40)
    /\ 3 * rets[1].s_score = SCALE * (70 + 70 + 30)
    /\ 2 * rets[1].g_score = SCALE * (50 + 85)

\* C3: for non-negative raw inputs the energy, water, waste, turnover and
\* incident sub-indicators are never negative.
C3_SubIndicatorsFloored ==
    (Calculated /\ NonNegativeRaw) =>
        /\ energy_score(ArgEnv) >= 0
        /\ water_score(ArgEnv) >= 0
        /\ waste_score(ArgEnv) >= 0
        /\ turnover_score(ArgSocial) >= 0
        /\ incident_score(ArgSocial) >= 0

\* every one of the five raw metrics is large enough for its floor to act
C3_Witness ==
    /\ Calculated
    /\ ArgEnv.energy > 100000 /\ ArgEnv.water > 50000 /\ ArgEnv.waste > 10000
    /\ ArgSocial.turnover > 50 /\ ArgSocial.incidents > 10
    /\ energy_score(ArgEnv) = 0 /\ water_score(ArgEnv) = 0 /\ waste_score(ArgEnv) = 0
    /\ turnover_score(ArgSocial) = 0 /\ incident_score(ArgSocial) = 0

InScoreRange(x) == 0 <= x /\ x <= 100 * SCALE

\* C4: for non-negative raw metrics and percentages in [0,100], each of the
\* four returned scores lies in [0,100].
C4_ScoresInRange ==
    (Calculated /\ NonNegativeRaw /\ PercentagesInRange) =>
        /\ InScoreRange(rets[1].final_score)
        /\ InScoreRange(rets[1].e_score)
        /\ InScoreRange(rets[1].s_score)
        /\ InScoreRange(rets[1].g_score)

\* the best valid input: every score sits on the upper end of the range
C4_Witness ==
    /\ Calculated /\ NonNegativeRaw /\ PercentagesInRange
    /\ rets[1].final_score = 100 * SCALE
    /\ rets[1].e_score = 100 * SCALE
    /\ rets[1].s_score = 100 * SCALE
    /\ rets[1].g_score = 100 * SCALE

\* C11: for the default input (energy 50000, water 2500, waste 1000,
\* recycling 40; turnover 15, incidents 3, diversity 30; independence 50,
\* ethics 85) calculate_esg_score returns e_score 68.75, s_score 170/3,
\* g_score 67.5 and overall 64.75.
C11_DefaultInputScores ==
    (/\ Calculated
     /\ ArgEnv = [energy |-> 50000, water |-> 2500, waste |-> 1000, recycling |-> 40]
     /\ ArgSocial = [turnover |-> 15, incidents |-> 3, diversity |-> 30]
     /\ ArgGov = [independence |-> 50, ethics |-> 85]) =>
        /\ 100 * rets[1].e_score = 6875 * SCALE
        /\ 3 * rets[1].s_score = 170 * SCALE
        /\ 10 * rets[1].g_score = 675 * SCALE
        /\ 100 * rets[1].final_score = 6475 * SCALE

\* calculate_esg_score has returned for the values the form starts with
C11_Witness ==
    /\ Calculated
    /\ MetricSet(ArgEnv, ArgSocial, ArgGov) = default_input
    /\ rets[1].final_score > rets[1].s_score
    /\ rets[1].final_score < rets[1].g_score

NonNegativeInputs ==
    /\ NonNegativeRaw
    /\ ArgEnv.recycling >= 0
    /\ ArgSocial.diversity >= 0
    /\ ArgGov.independence >= 0
    /\ ArgGov.ethics >= 0

\* C22: for the overall score calculate_esg_score returns on non-negative
\* inputs, get_financial_opportunities returns a non-empty list that starts
\* with the minimum-score-0 offer, so the "no opportunities" branches of the
\* dashboard are not taken for such a score.
C22_EntryOfferAlwaysUnlocked ==
    (Calculated /\ NonNegativeInputs) =>
        LET unlocked_opportunities == get_financial_opportunities(rets[1].final_score)
        IN  /\ unlocked_opportunities # << >>
            /\ unlocked_opportunities[1] = FINANCE_OPPORTUNITIES[1]
            /\ unlocked_opportunities[1].minimum_esg_score = 0

\* the worst non-negative input: every score is 0, and only the entry offer
\* is unlocked
C22_Witness ==
    /\ Calculated /\ NonNegativeInputs
    /\ rets[1].final_score = 0
    /\ get_financial_opportunities(rets[1].final_score) = << FINANCE_OPPORTUNITIES[1] >>

-----------------------------------------------------------------------------
(* Properties of get_financial_opportunities *)

\* two completed calls of get_financial_opportunities, on Score1 then Score2
MatchedTwice == fn = "get_financial_opportunities" /\ Len(rets) = 2
Score1 == calls[1][1]
Score2 == calls[2][1]

Range(seq) == { seq[i] : i \in 1..Len(seq) }

\* C6: get_financial_opportunities is monotonic: for score1 >= score2 every
\* offer returned for score2 is also returned for score1.
C6_Monotonic ==
    (MatchedTwice /\ Score1 >= Score2) => Range(rets[2]) \subseteq Range(rets[1])

\* the higher score unlocks strictly more than the lower one, which unlocks
\* more than the entry offer
C6_Witness ==
    /\ MatchedTwice /\ Score1 > Score2
    /\ Len(rets[2]) >= 2
    /\ Len(rets[1]) > Len(rets[2])

\* the number of catalog thresholds 0, 60, 75, 80, 90 at or below the score
ThresholdsReached(score) ==
    Cardinality({ t \in {0, 60, 75, 80, 90} : t * SCALE <= score })

\* C7: the result is exactly the catalog offers whose minimum_esg_score is
\* <= the score, in catalog order; the thresholds ascend 0, 60, 75, 80, 90,
\* so the result is a prefix of the catalog: all five offers at score 100,
\* exactly the minimum-0 offer at score 0.
C7_ExactPrefix ==
    /\ [i \in 1..Len(FINANCE_OPPORTUNITIES) |-> FINANCE_OPPORTUNITIES[i].minimum_esg_score]
          = <<0, 60, 75, 80, 90>>
    /\ fn = "get_financial_opportunities" =>
          \A i \in 1..Len(rets) :
              /\ rets[i] = SubSeq(FINANCE_OPPORTUNITIES, 1, ThresholdsReached(calls[i][1]))
              /\ calls[i][1] = 100 * SCALE => rets[i] = FINANCE_OPPORTUNITIES
              /\ calls[i][1] = 0 => rets[i] = << FINANCE_OPPORTUNITIES[1] >>

\* a score exactly on a threshold and a score one unit below one
C7_Witness ==
    /\ MatchedTwice
    /\ Score1 = 60 * SCALE /\ Len(rets[1]) = 2
    /\ Score2 = 75 * SCALE - 1 /\ Len(rets[2]) = 2

-----------------------------------------------------------------------------
(* Properties of get_recommendations *)

Recommended == fn = "get_recommendations" /\ Len(rets) = 1

\* per category: the score passed, the rule table, the praise, the list returned
Categories ==
    { [score |-> calls[1][1], rules |-> E_RULES, praise |-> E_PRAISE, msgs |-> rets[1].E],
      [score |-> calls[1][2], rules |-> S_RULES, praise |-> S_PRAISE, msgs |-> rets[1].S],
      [score |-> calls[1][3], rules |-> G_RULES, praise |-> G_PRAISE, msgs |-> rets[1].G] }

NoRuleFired(c) == \A k \in 1..3 : c.score >= c.rules[k][1] * SCALE

\* C8: every list is non-empty; a list is the single praise message iff none
\* of the category's three rules fired; the praise never accompanies a rule
\* message.
C8_Fallback ==
    Recommended =>
        \A c \in Categories :
            /\ c.msgs # << >>
            /\ (c.msgs = << c.praise >>) <=> NoRuleFired(c)
            /\ c.praise \in Range(c.msgs) => Len(c.msgs) = 1

\* one category praised, one with a single rule message, one with all three
C8_Witness ==
    /\ Recommended
    /\ rets[1].E = << E_PRAISE >>
    /\ rets[1].S = << S_MEDIUM >>
    /\ Len(rets[1].G) = 3

\* the threshold, in points, of the rule each rule message belongs to
MessageThreshold ==
    (E_HIGH :> 70) @@ (E_MEDIUM :> 80) @@ (E_CRITICAL :> 60)
    @@ (S_HIGH :> 70) @@ (S_MEDIUM :> 80) @@ (S_CRITICAL :> 60)
    @@ (G_HIGH :> 75) @@ (G_MEDIUM :> 85) @@ (G_CRITICAL :> 65)

\* the position of each rule message in the rule table of its category
MessageRank ==
    (E_HIGH :> 1) @@ (E_MEDIUM :> 2) @@ (E_CRITICAL :> 3)
    @@ (S_HIGH :> 1) @@ (S_MEDIUM :> 2) @@ (S_CRITICAL :> 3)
    @@ (G_HIGH :> 1) @@ (G_MEDIUM :> 2) @@ (G_CRITICAL :> 3)

IsRuleMessage(msg) == msg \in DOMAIN MessageThreshold

\* C9 as stated: within each list the rule messages appear by ascending
\* threshold, a lower-threshold message never after a higher-threshold one.
C9_AscendingThreshold ==
    Recommended =>
        \A c \in Categories : \A i, j \in 1..Len(c.msgs) :
            (i < j /\ IsRuleMessage(c.msgs[i]) /\ IsRuleMessage(c.msgs[j]))
                => MessageThreshold[c.msgs[i]] <= MessageThreshold[c.msgs[j]]

\* C9 amended: within each list the rule messages appear in the order of the
\* rule table, High Impact, Medium Impact, Critical (thresholds 70, 80, 60
\* for E and S; 75, 85, 65 for G): the Critical message, whose rule has the
\* lowest threshold, comes last.
C9_RuleTableOrder ==
    Recommended =>
        \A c \in Categories : \A i, j \in 1..Len(c.msgs) :
            (i < j /\ IsRuleMessage(c.msgs[i]) /\ IsRuleMessage(c.msgs[j]))
                => MessageRank[c.msgs[i]] < MessageRank[c.msgs[j]]

\* a category below its lowest threshold: all three rules fired
C9_Witness ==
    /\ Recommended
    /\ calls[1][1] < 60 * SCALE
    /\ rets[1].E = << E_HIGH, E_MEDIUM, E_CRITICAL >>
    /\ rets[1].G = << G_HIGH, G_MEDIUM >>

-----------------------------------------------------------------------------
(* Properties of the history store *)

\* a completed call of get_esg_history: the inserts before it, the user asked
\* for, the list returned
Listed == fn = "get_esg_history" /\ Len(rets) = 1
ArgInserts == calls[1][1]
ArgUser == calls[1][2]

\* the positions of seq that hold the value v
Positions(seq, v) == { i \in 1..Len(seq) : seq[i] = v }

\* the times at which the user saved an entry, in insertion order
SavedTimes(inserts, user_id) ==
    LET own == SelectSeq(inserts, LAMBDA ins : ins[1] = user_id)
    IN  [i \in 1..Len(own) |-> own[i][2]]

\* the timestamps of a returned list, in list order
ListedTimes(list) == [i \in 1..Len(list) |-> list[i].timestamp]

\* C15: get_esg_history(user_id) returns the entries saved for that user,
\* each with the time it was saved at, in ascending timestamp order; it
\* returns the empty sequence when the user has saved nothing.
C15_AscendingOwnEntries ==
    Listed =>
        LET saved == SavedTimes(ArgInserts, ArgUser)
            listed == ListedTimes(rets[1])
        IN  /\ \A i, j \in 1..Len(listed) : i < j => listed[i] <= listed[j]
            /\ \A t \in TimeVals :
                   Cardinality(Positions(listed, t)) = Cardinality(Positions(saved, t))
            /\ saved = << >> => rets[1] = << >>

\* the user saved 10 s, then 1 s, then 0.999999 s: the list reverses them
C15_Witness ==
    /\ Listed
    /\ SavedTimes(ArgInserts, ArgUser) = <<10 * MICROSECONDS, MICROSECONDS, 999999>>
    /\ ListedTimes(rets[1]) = <<999999, MICROSECONDS, 10 * MICROSECONDS>>

\* the entry get_esg_history is to return for an insert
SavedEntry(ins) ==
    LET scores == calculate_esg_score(ins[3].env, ins[3].social, ins[3].gov)
    IN  [timestamp |-> ins[2],
         overall_score |-> scores.final_score, e_score |-> scores.e_score,
         s_score |-> scores.s_score, g_score |-> scores.g_score,
         env_data |-> ins[3].env, social_data |-> ins[3].social, gov_data |-> ins[3].gov]

\* C16: after any interleaving of saves by several users, the list of a user
\* holds exactly the entries saved for that user, each as often as it was
\* saved and with the scores and inputs it was saved with, and no entry that
\* only another user saved.
C16_ExactlyOwnEntries ==
    Listed =>
        LET own == SelectSeq(ArgInserts, LAMBDA ins : ins[1] = ArgUser)
            saved == [i \in 1..Len(own) |-> SavedEntry(own[i])]
        IN  /\ Len(rets[1]) = Len(saved)
            /\ \A e \in Range(saved) \cup Range(rets[1]) :
                   Cardinality(Positions(rets[1], e)) = Cardinality(Positions(saved, e))

\* two users saved in turn, the user asked for on both sides of the other
C16_Witness ==
    /\ Listed
    /\ Len(ArgInserts) = 3
    /\ ArgInserts[1][1] = ArgUser
    /\ ArgInserts[2][1] # ArgUser
    /\ ArgInserts[3][1] = ArgUser
    /\ ArgInserts[1][3] # ArgInserts[3][3]
    /\ Len(rets[1]) = 2

-----------------------------------------------------------------------------
(* Properties of the script *)

\* the data sets the last run passed to calculate_esg_score
ScoredData == Range(view.input) \cup Range(view.scenario_input)

PercentagesOf(data) ==
    { data.env.recycling, data.social.turnover, data.social.diversity,
      data.gov.independence, data.gov.ethics }

\* C5: on every path that invokes the scoring pipeline (manual form, CSV
\* upload, scenario planner) the five percentage values passed to
\* calculate_esg_score lie in [0,100].
C5_PercentagesClamped ==
    \A data \in ScoredData : \A pct \in PercentagesOf(data) : 0 <= pct /\ pct <= 100

\* C12: when an append to or a list of the history store fails during a run,
\* the run ends with that failure itself, on the manual path and on the CSV
\* path alike: it is not caught and replaced by another outcome.
C12_StorageErrorSurfaced ==
    view.storage_error => view.error = "sqlite3.Error"

\* the nine metric names of the template file
RequiredMetrics == DOMAIN template_csv

\* C13: while the uploaded CSV lacks one of the nine required metric names,
\* the run reports a missing-metric error: it computes no score and shows no
\* dashboard, and so has no entry to append to the history.
C13_MissingMetricRejected ==
    \A file \in Range(uploaded_file) :
        ~(RequiredMetrics \subseteq DOMAIN file) =>
            /\ view.error = "KeyError"
            /\ view.scores = << >>
            /\ ~view.dashboard

\* C10: a run that applies the pipeline to the data of an earlier application
\* gets the same scores, recommendations and offers, whatever was appended,
\* submitted, recomputed or computed by other users in between.
C10_Idempotent ==
    \A a \in Applications(view) :
        (earlier_run # << >> /\ a.data = earlier_run[1].data) =>
            /\ a.scores = earlier_run[1].scores
            /\ (a.recommendations # << >> /\ earlier_run[1].recommendations # << >>)
                  => a.recommendations = earlier_run[1].recommendations
            /\ (a.opportunities # << >> /\ earlier_run[1].opportunities # << >>)
                  => a.opportunities = earlier_run[1].opportunities

\* the full pipeline applied again to the data of an earlier full application,
\* after a feedback submission and several history appends
C10_Witness ==
    /\ earlier_run # << >>
    /\ earlier_run[1].recommendations # << >>
    /\ earlier_run[1].opportunities # << >>
    /\ view.report_data # << >>
    /\ view.input = << earlier_run[1].data >>
    /\ feedback # << >>
    /\ Len(esg_history) > 2

\* the history row save_esg_history writes for an application of the pipeline
EntryOf(user_id, a, row) ==
    /\ row.user_id = user_id
    /\ row.overall_score = a.scores.final_score
    /\ row.e_score = a.scores.e_score
    /\ row.s_score = a.scores.s_score
    /\ row.g_score = a.scores.g_score
    /\ MetricSet(row.env_data, row.social_data, row.gov_data) = a.data

\* C14 as stated: every application of the pipeline the last run made
\* (manual Calculate, CSV upload, scenario recomputation) has its entry in
\* the history of the current user.
C14_EveryComputationAppends ==
    \A a \in Applications(view) :
        \E i \in 1..Len(esg_history) : EntryOf(session_state.user_id, a, esg_history[i])

\* C14 amended: the score computation of a submission (manual Calculate, CSV
\* run) is followed by one append, of an entry holding that computation's
\* scores and inputs for the current user; a run appends no entry of any
\* other computation, so a scenario-planner recomputation creates none.
C14_SubmissionAppends ==
    /\ [](view.scores # << >> =>
            /\ esg_history # << >>
            /\ EntryOf(session_state.user_id,
                       [data |-> view.input[1], scores |-> view.scores[1]],
                       esg_history[Len(esg_history)]))
    /\ [][/\ SubSeq(esg_history', 1, Len(esg_history)) = esg_history
          /\ \A i \in (Len(esg_history) + 1)..Len(esg_history') :
                 /\ view'.scores # << >>
                 /\ EntryOf(session_state'.user_id,
                            [data |-> view'.input[1], scores |-> view'.scores[1]],
                            esg_history'[i])]_vars

\* a run that scored the uploaded data and, in the scenario planner, other data
C14_Witness ==
    /\ view.scores # << >>
    /\ view.scenario_scores # << >>
    /\ view.scenario_input # view.input
    /\ Len(esg_history) >= 2
    /\ EntryOf(session_state.user_id,
               [data |-> view.input[1], scores |-> view.scores[1]],
               esg_history[Len(esg_history)])

\* the report record of the scores and inputs on the page
ReportOf(v) ==
    LET scores == v.scores[1]
        data == v.input[1]
        recommendations ==
            get_recommendations(scores.e_score, scores.s_score, scores.g_score)
        offers == get_financial_opportunities(scores.final_score)
    IN  [Overall_ESG_Score |-> format_1f(scores.final_score),
         Environmental_Score |-> format_1f(scores.e_score),
         Social_Score |-> format_1f(scores.s_score),
         Governance_Score |-> format_1f(scores.g_score),
         Input_Data |->
             [Environmental |-> data.env, Social |-> data.social, Governance |-> data.gov],
         Recommendations_Environmental |-> recommendations.E,
         Recommendations_Social |-> recommendations.S,
         Recommendations_Governance |-> recommendations.G,
         Unlocked_Financial_Opportunities |->
             [i \in 1..Len(offers) |-> report_entry(offers[i])]]

\* C17: whenever the dashboard is displayed for a computed score, whichever
\* tab is selected, the run has built the report record of the four scores,
\* the inputs, the three recommendation lists and the offers
\* get_financial_opportunities(final_score) returns.
C17_ReportOnEveryTab ==
    (view.dashboard /\ view.error # "RerunException") =>
        view.report_data = << ReportOf(view) >>

\* C18: the run a click on star i triggers renders the dashboard with the
\* Feedback tab active and rating i shown as selected.
C18_StarShownImmediately ==
    [][\A star \in 1..5 :
          ClickStar(star) =>
              /\ view'.dashboard
              /\ view'.tab = FeedbackTab
              /\ view'.selected_rating = << star >>]_vars

\* C19: while a user is logged in, a click on Calculate and an upload of a
\* file each append exactly one history entry; selecting a tab, clicking a
\* star, changing a scenario widget and submitting feedback append none.
C19_OneEntryPerSubmission ==
    [][authentication_status = "True" =>
          /\ ((\E data \in FormInputs : Calculate(data))
                 \/ (\E file \in CsvFiles : UploadFile(file)))
             => Len(esg_history') = Len(esg_history) + 1
          /\ ((\E tab \in TabIndexes : SelectTab(tab))
                 \/ (\E star \in 1..5 : ClickStar(star))
                 \/ (\E data \in FormInputs : ChangeScenario(data))
                 \/ SubmitFeedback)
             => esg_history' = esg_history]_vars

\* what a submission of the feedback form is to do
SubmissionSaves ==
    IF session_state.feedback_rating > 0
    THEN /\ feedback' = Append(feedback, [user_id |-> session_state.user_id,
                                          rating |-> session_state.feedback_rating])
         /\ session_state'.feedback_rating = 0
    ELSE /\ feedback' = feedback
         /\ view'.feedback_message = "no_rating"

\* C20: while a user is logged in, a feedback row is saved if and only if the
\* form is submitted with a rating greater than 0 selected; a saved row has a
\* rating in 1..5; a submission with no star selected saves nothing and
\* reports an error; after a saved submission the rating is 0 again.
C20_FeedbackSavedIffRated ==
    [][authentication_status = "True" =>
          /\ SubmitFeedback => SubmissionSaves
          /\ feedback' # feedback =>
                 (SubmitFeedback /\ session_state.feedback_rating > 0)
          /\ \A i \in 1..Len(feedback') : feedback'[i].rating \in 1..5]_vars

\* the inputs of the logged-in user's own entries
OwnInputs(user_id) ==
    { MetricSet(esg_history[i].env_data, esg_history[i].social_data,
                esg_history[i].gov_data) :
        i \in { j \in 1..Len(esg_history) : esg_history[j].user_id = user_id } }

\* C21: the values pre-filled in the manual form for the logged-in user are
\* the fixed defaults or inputs of that user's own entries, never values only
\* another user entered.
C21_PrefillIsOwn ==
    (authentication_status = "True" /\ view.form = "manual") =>
        \A last_input \in Range(session_state.last_input) :
            last_input \in {default_input} \cup OwnInputs(username)

====
